---- MODULE Spec2Model ----
(***************************************************************************)
(* Model of vmtest/vm.py: run_in_vm (capability probe, compatibility shim, *)
(* control channel, hypervisor child, status validation), the guest init   *)
(* script _INIT_TEMPLATE and the command-line entry point.                 *)
(***************************************************************************)
EXTENDS Integers, Sequences, FiniteSets, TLC

(***************************************************************************)
(* Bounds of the model.                                                    *)
(***************************************************************************)
MaxVerLen == 5      \* characters of the version text after the fixed words
MaxBufLen == 4      \* bytes of an arbitrary received buffer (SpecStatus)
MaxClock == 4       \* file-timestamp clock of the shim artifact and its source
MaxRuns == 3        \* runs in a sequence of runs (SpecShim)

(***************************************************************************)
(* Characters of the version text: decimal digits are 0..9.                *)
(***************************************************************************)
DOT == 10
JUNK == 11
VerDigits == {0, 1, 2, 3, 4, 5, 9}
VerAlphabet == VerDigits \cup {DOT, JUNK}

(***************************************************************************)
(* Bytes of the control channel, as ASCII codes.                           *)
(***************************************************************************)
NL == 10
IsDigitByte(b) == b \in 48..57
\* the digits 0, 1, 2, 9, the newline, a space, a minus sign and a letter
ByteSet == {48, 49, 50, 57, NL, 32, 45, 97}

SeqsUpTo(S, n) == UNION {[1..k -> S] : k \in 0..n}

Last(s) == s[Len(s)]
Front(s) == SubSeq(s, 1, Len(s) - 1)

(***************************************************************************)
(* re.search for the words QEMU emulator version and a group: the group is *)
(* the longest prefix of the text after the fixed words that has           *)
(* the shape digits(.digits)*; DigitRun is the length of a leading run of  *)
(* digits, GroupLen the length of the whole group (0: no match).           *)
(***************************************************************************)
RECURSIVE DigitRun(_)
DigitRun(s) ==
    IF s = <<>> \/ s[1] \notin 0..9 THEN 0 ELSE 1 + DigitRun(Tail(s))

RECURSIVE MoreComponents(_)
MoreComponents(s) ==
    IF Len(s) >= 2 /\ s[1] = DOT /\ DigitRun(Tail(s)) > 0
    THEN LET n == DigitRun(Tail(s))
         IN  1 + n + MoreComponents(SubSeq(s, n + 2, Len(s)))
    ELSE 0

GroupLen(s) ==
    LET n == DigitRun(s)
    IN  IF n = 0 THEN 0 ELSE n + MoreComponents(SubSeq(s, n + 1, Len(s)))

VersionMatch(s) == SubSeq(s, 1, GroupLen(s))

\* str.split on the dot: the components between the dots
RECURSIVE SplitDots(_)
SplitDots(g) ==
    LET n == DigitRun(g)
    IN  IF n = Len(g) THEN <<g>>
        ELSE <<SubSeq(g, 1, n)>> \o SplitDots(SubSeq(g, n + 2, Len(g)))

\* int(x) of a string of decimal digits
RECURSIVE IntOfDigits(_)
IntOfDigits(d) ==
    IF d = <<>> THEN 0 ELSE 10 * IntOfDigits(Front(d)) + Last(d)

\* the tuple of int(x) for the components x of the group
ParseVersion(g) ==
    LET parts == SplitDots(g)
    IN  [i \in 1..Len(parts) |-> IntOfDigits(parts[i])]

(***************************************************************************)
(* Python's ordering of tuples: the first differing component decides; if  *)
(* one tuple is a prefix of the other, the shorter one is the smaller.     *)
(***************************************************************************)
RECURSIVE TupleLess(_, _)
TupleLess(a, b) ==
    IF b = <<>> THEN FALSE
    ELSE IF a = <<>> THEN TRUE
    ELSE IF a[1] # b[1] THEN a[1] < b[1]
    ELSE TupleLess(Tail(a), Tail(b))

TupleGE(a, b) == ~TupleLess(a, b)

\* the bounds the version is compared with; the first with a third component
\* would put the two-component version 4.2 below it
MultidevsMin_ThreeComponents == <<4, 2, 0>>
MultidevsMin == <<4, 2>>
HackBelow == <<5, 0, 1>>

\* multidevs=remap is passed if qemu_version >= (4, 2)
Multidevs(v) == TupleGE(v, MultidevsMin)
\* if qemu_version < (5, 0, 1): build and preload the shim
NeedsOnoatimeHack(v) == TupleLess(v, HackBelow)

(***************************************************************************)
(* The status message.  The guest writes echo $rc: the decimal digits of   *)
(* rc, no leading zeros, and one newline.                                  *)
(***************************************************************************)
RECURSIVE DecimalBytes(_)
DecimalBytes(n) ==
    IF n < 10 THEN <<48 + n>> ELSE DecimalBytes(n \div 10) \o <<48 + (n % 10)>>

EchoRc(n) == DecimalBytes(n) \o <<NL>>

\* bytearray.isdigit(): non-empty and every byte an ASCII decimal digit
IsDigit(b) == b # <<>> /\ \A i \in 1..Len(b) : IsDigitByte(b[i])

\* the second test of run_in_vm (invalid status)
InvalidStatus(b) == Last(b) # NL \/ ~IsDigit(Front(b))

\* int(status_buf): whitespace around the digits is ignored
IsSpaceByte(b) == b \in {NL, 32, 9, 11, 12, 13}
RECURSIVE Strip(_)
Strip(b) ==
    IF b = <<>> THEN b
    ELSE IF IsSpaceByte(b[1]) THEN Strip(Tail(b))
    ELSE IF IsSpaceByte(Last(b)) THEN Strip(Front(b))
    ELSE b

RECURSIVE IntOfBytes(_)
IntOfBytes(b) ==
    IF b = <<>> THEN 0 ELSE 10 * IntOfBytes(Front(b)) + (Last(b) - 48)

IntOfStatus(b) == IntOfBytes(Strip(b))

(***************************************************************************)
(* Inputs of a run.                                                        *)
(***************************************************************************)
RunVersionOutputs ==
    {<<JUNK>>, <<4, DOT, 1>>, <<5, DOT, 0>>, <<5, DOT, 0, DOT, 1>>}
LostStatusSet == {128, 7}
RcSet == {0, 7, 128}
NoFile == -1

\* LD_PRELOAD in an environment: unset, or set to a list of paths; the
\* value is kept as its sequence of paths and separators.
NoPreload == [set |-> FALSE, val |-> <<>>]
RunEnvirons == {NoPreload, [set |-> TRUE, val |-> <<"libfoo.so">>]}
\* env before os.environ is copied
NotCopied == [set |-> FALSE, val |-> <<"-">>]
\* the path of the shim, onoatimehack.so in the build directory
OnoatimehackSo == "onoatimehack.so"

\* The name of the port: VPORT_NAME in the script, name= on the command
\* line of the hypervisor.
VPORT_NAME == "com.osandov.vmtest.0"
VirtserialportName == "com.osandov.vmtest.0"
ThePort == [name |-> VirtserialportName, readable |-> TRUE]
UnreadablePort == [name |-> VirtserialportName, readable |-> FALSE]
OtherPort == [name |-> "org.qemu.guest_agent.0", readable |-> TRUE]
RunPortLists ==
    {<<>>, <<ThePort>>, <<UnreadablePort, OtherPort>>,
     <<OtherPort, ThePort, ThePort>>}
NoRc == -1

VARIABLES
    version_out,    \* what qemu-system-x86_64 -version prints after the fixed words
    lost_status,    \* args.lost_status
    pc,             \* position of the host in __main__ / run_in_vm
    qemu_version,   \* the parsed version tuple
    multidevs,      \* TRUE: multidevs=remap is passed
    os_environ,     \* LD_PRELOAD in the environment of the host process
    env,            \* LD_PRELOAD in env, the environment made for the child
    so_mtime,       \* mtime of onoatimehack.so, NoFile if it does not exist
    c_mtime,        \* mtime of onoatimehack.c
    clock,          \* file-system time
    build_calls,    \* calls of _compile in this run
    builds_since_touch, \* calls of _compile since onoatimehack.c last changed
    temp_dir,       \* the temporary directory exists
    socket_path,    \* temp_dir/socket exists
    init_file,      \* temp_dir/init exists
    server_sock,    \* none, listening, closed
    child,          \* the Popen child: none, running, exited
    conn,           \* the connection of the child: none, pending, accepted
    peer,           \* the child's end of the connection: open, closed, reset
    sock,           \* the accepted socket: none, open, closed
    wire,           \* bytes sent by the child and not yet received
    status_buf,     \* bytes received
    exc,            \* exception raised inside the Popen block, not yet propagated
    result,         \* what run_in_vm returned or raised
    exit_status,    \* exit status of the process, NoRc while it runs
    gpc,            \* position of the guest init script
    rc,             \* exit status of the user command in the guest
    written,        \* what the guest init script wrote to the port
    gstep,          \* the command of ScriptSteps the script is at
    gfailed,        \* the commands of ScriptSteps that failed
    ports,          \* the ports under /sys/class/virtio-ports, in order
    vport,          \* the port the script found, 0 for none
    sent,           \* all the bytes the child put on the connection
    accept_calls,   \* calls of server_sock.accept that returned or timed out
    run             \* number of the run

vars == <<version_out, lost_status, os_environ, pc, qemu_version, multidevs,
          env,
          so_mtime, c_mtime, clock, build_calls, builds_since_touch,
          temp_dir, socket_path, init_file, server_sock, child, conn, peer,
          sock, wire, status_buf, exc, result, exit_status, gpc, rc, written,
          gstep, gfailed, ports, vport, sent, accept_calls, run>>

envVars == <<version_out, lost_status, ports, os_environ>>
fileVars == <<so_mtime, c_mtime, clock, build_calls, builds_since_touch>>
probeVars == <<qemu_version, multidevs, env>>
resVars == <<temp_dir, socket_path, init_file, server_sock>>
chanVars == <<conn, peer, wire>>
guestVars == <<gpc, rc, written, gstep, gfailed, vport, sent>>

NoResult == [kind |-> "none", code |-> NoRc, msg |-> "", raw |-> <<>>]
Exited(n) == [kind |-> "exited", code |-> n, msg |-> "", raw |-> <<>>]
LostVMError(m, b) == [kind |-> "lost", code |-> NoRc, msg |-> m, raw |-> b]
OtherError(m) == [kind |-> "error", code |-> NoRc, msg |-> m, raw |-> <<>>]

\* the state of one run before it starts
RunStart ==
    /\ pc = "start"
    /\ qemu_version = <<>>
    /\ multidevs = FALSE
    /\ env = NotCopied
    /\ build_calls = 0
    /\ temp_dir = FALSE
    /\ socket_path = FALSE
    /\ init_file = FALSE
    /\ server_sock = "none"
    /\ child = "none"
    /\ conn = "none"
    /\ peer = "open"
    /\ sock = "none"
    /\ wire = <<>>
    /\ status_buf = <<>>
    /\ exc = NoResult
    /\ result = NoResult
    /\ exit_status = NoRc
    /\ gpc = "off"
    /\ rc = NoRc
    /\ written = <<>>
    /\ gstep = 0
    /\ gfailed = {}
    /\ vport = 0
    /\ sent = <<>>
    /\ accept_calls = 0

FilesInit ==
    /\ clock = 1
    /\ c_mtime \in 0..1
    /\ so_mtime \in {NoFile} \cup 0..1
    /\ builds_since_touch = 0

Init ==
    /\ version_out \in RunVersionOutputs
    /\ lost_status \in LostStatusSet
    /\ ports \in RunPortLists
    /\ os_environ \in RunEnvirons
    /\ FilesInit
    /\ RunStart
    /\ run = 1

(***************************************************************************)
(* run_in_vm, in the order of its statements.                              *)
(***************************************************************************)

\* the version text has no version: raise Exception
ProbeFails_Lost ==
    /\ pc = "start"
    /\ GroupLen(version_out) = 0
    /\ result' = LostVMError("could not determine QEMU version", <<>>)
    /\ pc' = "returned"
    /\ UNCHANGED <<envVars, fileVars, probeVars, resVars, child, chanVars,
                   sock, status_buf, exc, exit_status, guestVars,
                   accept_calls, run>>

ProbeFails ==
    /\ pc = "start"
    /\ GroupLen(version_out) = 0
    /\ result' = OtherError("could not determine QEMU version")
    /\ pc' = "returned"
    /\ UNCHANGED <<envVars, fileVars, probeVars, resVars, child, chanVars,
                   sock, status_buf, exc, exit_status, guestVars,
                   accept_calls, run>>

\* the version is parsed and multidevs is chosen
Probe ==
    /\ pc = "start"
    /\ GroupLen(version_out) > 0
    /\ qemu_version' = ParseVersion(VersionMatch(version_out))
    /\ multidevs' = Multidevs(qemu_version')
    /\ pc' = "shim"
    /\ UNCHANGED <<envVars, fileVars, env, resVars, child, chanVars,
                   sock, status_buf, exc, result, exit_status, guestVars,
                   accept_calls, run>>

\* util.out_of_date(path, dep): the artifact is missing or not newer than dep
OutOfDate(so, c) == so = NoFile \/ ~(so > c)

\* the test of _build_onoatimehack; without it every run would compile
CompileNeeded_Always == TRUE
CompileNeeded == OutOfDate(so_mtime, c_mtime)

\* env["LD_PRELOAD"] = f"{so}:{env.get('LD_PRELOAD', '')}"
PrependPreload_DropOld(e) == [set |-> TRUE, val |-> <<OnoatimehackSo, ":">>]
PrependPreload(e) ==
    [set |-> TRUE,
     val |-> <<OnoatimehackSo, ":">> \o (IF e.set THEN e.val ELSE <<>>)]

\* qemu_version >= (5, 0, 1): env is a plain copy of os.environ
SkipShim ==
    /\ pc = "shim"
    /\ ~NeedsOnoatimeHack(qemu_version)
    /\ env' = os_environ
    /\ pc' = "setup"
    /\ UNCHANGED <<envVars, fileVars, qemu_version, multidevs, resVars, child,
                   chanVars,
                   sock, status_buf, exc, result, exit_status, guestVars,
                   accept_calls, run>>

\* _build_onoatimehack finds the artifact up to date
ReuseShim ==
    /\ pc = "shim"
    /\ NeedsOnoatimeHack(qemu_version)
    /\ ~CompileNeeded
    /\ env' = PrependPreload(os_environ)
    /\ pc' = "setup"
    /\ UNCHANGED <<envVars, fileVars, qemu_version, multidevs, resVars, child,
                   chanVars, sock, status_buf, exc, result, exit_status,
                   guestVars, accept_calls, run>>

\* _build_onoatimehack calls _compile, which writes the artifact
BuildShim ==
    /\ pc = "shim"
    /\ NeedsOnoatimeHack(qemu_version)
    /\ CompileNeeded
    /\ clock < MaxClock
    /\ clock' = clock + 1
    /\ so_mtime' = clock + 1
    /\ build_calls' = build_calls + 1
    /\ builds_since_touch' = builds_since_touch + 1
    /\ env' = PrependPreload(os_environ)
    /\ pc' = "setup"
    /\ UNCHANGED <<envVars, c_mtime, qemu_version, multidevs, resVars, child,
                   chanVars, sock, status_buf, exc, result, exit_status,
                   guestVars, accept_calls, run>>

\* _compile raises CalledProcessError; the compiler left the old artifact
\* or removed it
BuildShimFails ==
    /\ pc = "shim"
    /\ NeedsOnoatimeHack(qemu_version)
    /\ CompileNeeded
    /\ so_mtime' \in {so_mtime, NoFile}
    /\ build_calls' = build_calls + 1
    /\ builds_since_touch' = builds_since_touch + 1
    /\ env' = os_environ
    /\ result' = OtherError("CalledProcessError")
    /\ pc' = "returned"
    /\ UNCHANGED <<envVars, c_mtime, clock, qemu_version, multidevs, resVars,
                   child,
                   chanVars, sock, status_buf, exc, exit_status, guestVars,
                   accept_calls, run>>

\* the with statement: TemporaryDirectory, socket, bind, listen; the first
\* variant leaves listen for later
CreateChannel_ListenLate ==
    /\ pc = "setup"
    /\ temp_dir' = TRUE
    /\ socket_path' = TRUE
    /\ server_sock' = "bound"
    /\ pc' = "write_init"
    /\ UNCHANGED <<envVars, fileVars, probeVars, init_file, child, chanVars,
                   sock, status_buf, exc, result, exit_status, guestVars,
                   accept_calls, run>>

CreateChannel ==
    /\ pc = "setup"
    /\ temp_dir' = TRUE
    /\ socket_path' = TRUE
    /\ server_sock' = "listening"
    /\ pc' = "write_init"
    /\ UNCHANGED <<envVars, fileVars, probeVars, init_file, child, chanVars,
                   sock, status_buf, exc, result, exit_status, guestVars,
                   accept_calls, run>>

\* the init script is written and made executable
WriteInit ==
    /\ pc = "write_init"
    /\ init_file' = TRUE
    /\ pc' = "spawn"
    /\ UNCHANGED <<envVars, fileVars, probeVars, temp_dir, socket_path,
                   server_sock, child, chanVars, sock, status_buf, exc, result,
                   exit_status, guestVars, accept_calls, run>>

\* leaving the with statement: the socket is closed, then the directory
\* with the init script and the socket path is removed; the first variant
\* only closes the socket
WithExit_KeepDir ==
    /\ server_sock' = "closed"
    /\ UNCHANGED <<temp_dir, socket_path, init_file>>

WithExit ==
    /\ server_sock' = "closed"
    /\ temp_dir' = FALSE
    /\ socket_path' = FALSE
    /\ init_file' = FALSE

\* subprocess.Popen starts the hypervisor
Spawn ==
    /\ pc = "spawn"
    /\ child' = "running"
    /\ pc' = "accept"
    /\ UNCHANGED <<envVars, fileVars, probeVars, resVars, chanVars, sock,
                   status_buf, exc, result, exit_status, guestVars,
                   accept_calls, run>>

\* subprocess.Popen raises (no such binary): the with statement is left
SpawnFails ==
    /\ pc = "spawn"
    /\ WithExit
    /\ result' = OtherError("OSError")
    /\ pc' = "returned"
    /\ UNCHANGED <<envVars, fileVars, probeVars, child, chanVars, sock,
                   status_buf, exc, exit_status, guestVars, accept_calls, run>>

\* server_sock.accept returns the connection that is waiting
AcceptOk ==
    /\ pc = "accept"
    /\ conn = "pending"
    /\ conn' = "accepted"
    /\ sock' = "open"
    /\ accept_calls' = accept_calls + 1
    /\ pc' = "recv"
    /\ UNCHANGED <<envVars, fileVars, probeVars, resVars, child, peer, wire,
                   status_buf, exc, result, exit_status, guestVars, run>>

\* no connection within 5 seconds: LostVMError is raised inside the Popen
\* block, whose exit waits for the child; the first variant calls accept
\* again instead
AcceptTimeout_Retry ==
    /\ pc = "accept"
    /\ conn = "none"
    /\ accept_calls < 2
    /\ accept_calls' = accept_calls + 1
    /\ UNCHANGED <<envVars, fileVars, probeVars, resVars, child, chanVars,
                   sock, status_buf, exc, pc, result, exit_status, guestVars,
                   run>>

AcceptTimeout ==
    /\ pc = "accept"
    /\ conn = "none"
    /\ accept_calls' = accept_calls + 1
    /\ exc' = LostVMError("QEMU did not connect within 5 seconds", <<>>)
    /\ pc' = "popen_exit"
    /\ UNCHANGED <<envVars, fileVars, probeVars, resVars, child, chanVars,
                   sock, status_buf, result, exit_status, guestVars, run>>

Min(a, b) == IF a < b THEN a ELSE b

\* sock.recv(4) returns between one and four of the bytes that arrived,
\* which status_buf.extend appends; the first variant keeps the last read
\* only
RecvData_Overwrite ==
    /\ pc = "recv"
    /\ wire # <<>>
    /\ \E k \in 1..Min(4, Len(wire)) :
          /\ status_buf' = SubSeq(wire, 1, k)
          /\ wire' = SubSeq(wire, k + 1, Len(wire))
    /\ UNCHANGED <<envVars, fileVars, probeVars, resVars, child, conn, peer,
                   sock, exc, pc, result, exit_status, guestVars,
                   accept_calls, run>>

RecvData ==
    /\ pc = "recv"
    /\ wire # <<>>
    /\ \E k \in 1..Min(4, Len(wire)) :
          /\ status_buf' = status_buf \o SubSeq(wire, 1, k)
          /\ wire' = SubSeq(wire, k + 1, Len(wire))
    /\ UNCHANGED <<envVars, fileVars, probeVars, resVars, child, conn, peer,
                   sock, exc, pc, result, exit_status, guestVars,
                   accept_calls, run>>

\* sock.recv(4) returns no bytes after the peer closed: the loop ends and
\* the finally clause closes the socket; the first variant gives up the
\* read while the peer still holds the connection open
RecvEof_TimesOut ==
    /\ pc = "recv"
    /\ wire = <<>>
    /\ sock' = "closed"
    /\ pc' = "popen_exit"
    /\ UNCHANGED <<envVars, fileVars, probeVars, resVars, child, chanVars,
                   status_buf, exc, result, exit_status, guestVars,
                   accept_calls, run>>

RecvEof ==
    /\ pc = "recv"
    /\ wire = <<>>
    /\ peer = "closed"
    /\ sock' = "closed"
    /\ pc' = "popen_exit"
    /\ UNCHANGED <<envVars, fileVars, probeVars, resVars, child, chanVars,
                   status_buf, exc, result, exit_status, guestVars,
                   accept_calls, run>>

\* sock.recv(4) raises ConnectionResetError, taken as no bytes; what had
\* not been received is lost; the first variant lets the reset end the run
\* as a lost VM
RecvReset_Lost ==
    /\ pc = "recv"
    /\ peer = "reset"
    /\ wire' = <<>>
    /\ sock' = "closed"
    /\ exc' = LostVMError("connection reset", status_buf)
    /\ pc' = "popen_exit"
    /\ UNCHANGED <<envVars, fileVars, probeVars, resVars, child, conn, peer,
                   status_buf, result, exit_status, guestVars,
                   accept_calls, run>>

RecvReset ==
    /\ pc = "recv"
    /\ peer = "reset"
    /\ wire' = <<>>
    /\ sock' = "closed"
    /\ pc' = "popen_exit"
    /\ UNCHANGED <<envVars, fileVars, probeVars, resVars, child, conn, peer,
                   status_buf, exc, result, exit_status, guestVars,
                   accept_calls, run>>

\* Popen.__exit__ returns once the child has exited; a pending LostVMError
\* then leaves the with statement; the first variant does not wait
PopenExit_NoWait ==
    /\ pc = "popen_exit"
    /\ IF exc.kind = "lost"
       THEN /\ WithExit
            /\ result' = exc
            /\ pc' = "returned"
       ELSE /\ pc' = "validate"
            /\ UNCHANGED <<resVars, result>>
    /\ UNCHANGED <<envVars, fileVars, probeVars, child, chanVars, sock,
                   status_buf, exc, exit_status, guestVars, accept_calls, run>>

PopenExit ==
    /\ pc = "popen_exit"
    /\ child = "exited"
    /\ IF exc.kind = "lost"
       THEN /\ WithExit
            /\ result' = exc
            /\ pc' = "returned"
       ELSE /\ pc' = "validate"
            /\ UNCHANGED <<resVars, result>>
    /\ UNCHANGED <<envVars, fileVars, probeVars, child, chanVars, sock,
                   status_buf, exc, exit_status, guestVars, accept_calls, run>>

\* the checks of status_buf and the return value; the variants drop the
\* newline test, lose the hundreds of the value, take no bytes as status 0
StatusResult_NoNewlineCheck(b) ==
    IF b = <<>> THEN LostVMError("VM did not return status", <<>>)
    ELSE IF ~IsDigit(IF Last(b) = NL THEN Front(b) ELSE b)
    THEN LostVMError("VM returned invalid status", b)
    ELSE Exited(IntOfStatus(b))

StatusResult_Truncating(b) ==
    IF b = <<>> THEN LostVMError("VM did not return status", <<>>)
    ELSE IF InvalidStatus(b) THEN LostVMError("VM returned invalid status", b)
    ELSE Exited(IntOfStatus(b) % 100)

StatusResult_EmptyAsZero(b) ==
    IF b = <<>> THEN Exited(0)
    ELSE IF InvalidStatus(b) THEN LostVMError("VM returned invalid status", b)
    ELSE Exited(IntOfStatus(b))

StatusResult(b) ==
    IF b = <<>> THEN LostVMError("VM did not return status", <<>>)
    ELSE IF InvalidStatus(b) THEN LostVMError("VM returned invalid status", b)
    ELSE Exited(IntOfStatus(b))

\* the end of run_in_vm: the result leaves the with statement
Validate ==
    /\ pc = "validate"
    /\ result' = StatusResult(status_buf)
    /\ WithExit
    /\ pc' = "returned"
    /\ UNCHANGED <<envVars, fileVars, probeVars, child, chanVars, sock,
                   status_buf, exc, exit_status, guestVars, accept_calls, run>>

\* the exit status a process gets from sys.exit(n)
ProcessStatus(n) == n % 256

\* __main__: sys.exit of the return value, of args.lost_status on
\* LostVMError; any other exception ends the interpreter with status 1 (the
\* first variant does not catch LostVMError)
ExitStatusOf_LostAsOne(r, lost) ==
    IF r.kind = "exited" THEN ProcessStatus(r.code)
    ELSE 1

ExitStatusOf(r, lost) ==
    IF r.kind = "exited" THEN ProcessStatus(r.code)
    ELSE IF r.kind = "lost" THEN ProcessStatus(lost)
    ELSE 1

MainExit ==
    /\ pc = "returned"
    /\ exit_status' = ExitStatusOf(result, lost_status)
    /\ pc' = "exited"
    /\ UNCHANGED <<envVars, fileVars, probeVars, resVars, child, chanVars,
                   sock, status_buf, exc, result, guestVars, accept_calls, run>>

(***************************************************************************)
(* The hypervisor child.  Its chardev connects to the socket path when it  *)
(* starts; the connection ends when the child closes it or exits.          *)
(***************************************************************************)
PeerEnds == IF conn # "none" /\ peer = "open" THEN {"closed", "reset"} ELSE {peer}

ChildConnect ==
    /\ child = "running"
    /\ conn = "none"
    /\ server_sock = "listening"
    /\ conn' = "pending"
    /\ UNCHANGED <<envVars, fileVars, probeVars, resVars, child, peer, wire,
                   sock, status_buf, exc, pc, result, exit_status, guestVars,
                   accept_calls, run>>

\* the child closes the connection and keeps running
ChildClose ==
    /\ child = "running"
    /\ conn # "none"
    /\ peer = "open"
    /\ peer' \in {"closed", "reset"}
    /\ UNCHANGED <<envVars, fileVars, probeVars, resVars, child, conn, wire,
                   sock, status_buf, exc, pc, result, exit_status, guestVars,
                   accept_calls, run>>

\* the child exits on its own: a kernel panic with -no-reboot, a crash
ChildExit ==
    /\ child = "running"
    /\ child' = "exited"
    /\ peer' \in PeerEnds
    /\ UNCHANGED <<envVars, fileVars, probeVars, resVars, conn, wire, sock,
                   status_buf, exc, pc, result, exit_status, guestVars,
                   accept_calls, run>>

(***************************************************************************)
(* The guest init script _INIT_TEMPLATE, run by the kernel in the child.   *)
(***************************************************************************)
GuestRuns == child = "running" /\ conn # "none"

\* The commands of the script up to the scan for the port, in groups of
\* consecutive lines: the lines of a group, the commands in it, and whether
\* the command is followed by || true.
ScriptSteps ==
    << [first |-> 25, last |-> 25, cmds |-> {"mount"}, or_true |-> FALSE],
       [first |-> 27, last |-> 27, cmds |-> {"set"}, or_true |-> FALSE],
       [first |-> 32, last |-> 32, cmds |-> {"trap"}, or_true |-> FALSE],
       [first |-> 42, last |-> 56, cmds |-> {"mount", "mkdir"},
        or_true |-> FALSE],
       [first |-> 58, last |-> 58, cmds |-> {"mount"}, or_true |-> TRUE],
       [first |-> 63, last |-> 72,
        cmds |-> {"mount", "pivot_root", "umount", "mkdir"},
        or_true |-> FALSE],
       [first |-> 74, last |-> 74, cmds |-> {"modprobe"}, or_true |-> FALSE],
       [first |-> 78, last |-> 101,
        cmds |-> {"mknod", "ln", "hostname", "ip"}, or_true |-> FALSE] >>

NumSteps == Len(ScriptSteps)

\* the steps set -eu and trap
SetEStep == CHOOSE i \in 1..NumSteps : "set" \in ScriptSteps[i].cmds
TrapStep_Never == NumSteps + 2
TrapStep == CHOOSE i \in 1..NumSteps : "trap" \in ScriptSteps[i].cmds

\* set -e is in force when step i runs
ErrExit_Never(i) == FALSE
ErrExit(i) == i > SetEStep

\* the EXIT trap has been registered
TrapSet == gstep > TrapStep

\* the shell builtins do not fail
CanFail(i) == ScriptSteps[i].cmds \cap {"set", "trap"} = {}

\* a failure of step i ends the script
Fatal(i) == ErrExit(i) /\ ~ScriptSteps[i].or_true

\* the kernel starts the script
GuestInit ==
    /\ GuestRuns
    /\ gpc = "off"
    /\ gpc' = "setup"
    /\ gstep' = 1
    /\ UNCHANGED <<envVars, fileVars, probeVars, resVars, child, chanVars,
                   sock, status_buf, exc, pc, result, exit_status, rc, written,
                   gfailed, vport, sent, accept_calls, run>>

\* one group of commands of the script: /proc, set -eu, the trap, the overlay root,
\* mounts, pivot_root, modules, device nodes, network; the command succeeds
\* or fails, and a failure under set -e without || true ends the script
GuestSetup ==
    /\ GuestRuns
    /\ gpc = "setup"
    /\ \E ok \in BOOLEAN :
          /\ ok \/ CanFail(gstep)
          /\ gfailed' = IF ok THEN gfailed ELSE gfailed \cup {gstep}
          /\ IF ok \/ ~Fatal(gstep)
             THEN /\ gstep' = gstep + 1
                  /\ gpc' = IF gstep = NumSteps THEN "findport" ELSE "setup"
             ELSE /\ gstep' = gstep
                  /\ gpc' = "poweroff"
    /\ UNCHANGED <<envVars, fileVars, probeVars, resVars, child, chanVars,
                   sock, status_buf, exc, pc, result, exit_status, rc, written,
                   vport, sent, accept_calls, run>>

\* the loop over /sys/class/virtio-ports: the first port, in order, whose
\* name is readable and is VPORT_NAME; 0 if there is none
RECURSIVE ScanPorts_NoBreak(_, _)
ScanPorts_NoBreak(ps, i) ==
    IF i > Len(ps) THEN 0
    ELSE IF ps[i].readable /\ ps[i].name = VPORT_NAME
              /\ ScanPorts_NoBreak(ps, i + 1) = 0 THEN i
    ELSE ScanPorts_NoBreak(ps, i + 1)

RECURSIVE ScanPorts(_, _)
ScanPorts(ps, i) ==
    IF i > Len(ps) THEN 0
    ELSE IF ps[i].readable /\ ps[i].name = VPORT_NAME THEN i
    ELSE ScanPorts(ps, i + 1)

\* the value of vport after the loop; without the break of line 108 the
\* last port of the name would be taken
FindPort_NoBreak(ps) == ScanPorts_NoBreak(ps, 1)
FindPort(ps) == ScanPorts(ps, 1)

\* the scan of /sys/class/virtio-ports; exit 1 if the port is not there
GuestFindPort ==
    /\ GuestRuns
    /\ gpc = "findport"
    /\ vport' = FindPort(ports)
    /\ gpc' = IF vport' = 0 THEN "poweroff" ELSE "command"
    /\ UNCHANGED <<envVars, fileVars, probeVars, resVars, child, chanVars,
                   sock, status_buf, exc, pc, result, exit_status, rc, written,
                   gstep, gfailed, sent, accept_calls, run>>

\* cd, which ends the script if it fails; set +e; sh -c command; rc=$?
GuestCommand ==
    /\ GuestRuns
    /\ gpc = "command"
    /\ \/ /\ rc' \in RcSet
          /\ gpc' = "report"
       \/ /\ rc' = rc
          /\ gpc' = "poweroff"
    /\ UNCHANGED <<envVars, fileVars, probeVars, resVars, child, chanVars,
                   sock, status_buf, exc, pc, result, exit_status, written,
                   gstep, gfailed, vport, sent, accept_calls, run>>

\* echo $rc to the port: all of the message, or only a part of it, gets
\* through the child to the socket; or the port cannot be written and
\* the failed echo ends the script
GuestReport ==
    /\ GuestRuns
    /\ gpc = "report"
    /\ \/ /\ written' = EchoRc(rc)
          /\ \E k \in 0..Len(EchoRc(rc)) :
                LET part == IF peer = "open" THEN SubSeq(EchoRc(rc), 1, k)
                            ELSE <<>>
                IN  /\ wire' = wire \o part
                    /\ sent' = sent \o part
       \/ /\ written' = <<>>
          /\ UNCHANGED <<wire, sent>>
    /\ gpc' = "poweroff"
    /\ UNCHANGED <<envVars, fileVars, probeVars, resVars, child, conn, peer,
                   sock, status_buf, exc, pc, result, exit_status, rc,
                   gstep, gfailed, vport, accept_calls, run>>

\* the script exits and its EXIT trap runs poweroff -f, which ends the
\* guest and with it the child
GuestPoweroff ==
    /\ GuestRuns
    /\ gpc = "poweroff"
    /\ TrapSet
    /\ gpc' = "halted"
    /\ child' = "exited"
    /\ peer' \in PeerEnds
    /\ UNCHANGED <<envVars, fileVars, probeVars, resVars, conn, wire, sock,
                   status_buf, exc, pc, result, exit_status, rc, written,
                   gstep, gfailed, vport, sent, accept_calls, run>>

(***************************************************************************)
(* Between runs.                                                           *)
(***************************************************************************)
\* onoatimehack.c is changed
TouchSource ==
    /\ clock < MaxClock
    /\ clock' = clock + 1
    /\ c_mtime' = clock + 1
    /\ builds_since_touch' = 0
    /\ UNCHANGED <<envVars, so_mtime, build_calls, probeVars, resVars, child,
                   chanVars, sock, status_buf, exc, pc, result, exit_status,
                   guestVars, accept_calls, run>>

\* the command line is run again
NextRun ==
    /\ pc = "exited"
    /\ run < MaxRuns
    /\ run' = run + 1
    /\ pc' = "start"
    /\ qemu_version' = <<>>
    /\ multidevs' = FALSE
    /\ env' = NotCopied
    /\ build_calls' = 0
    /\ temp_dir' = FALSE
    /\ socket_path' = FALSE
    /\ init_file' = FALSE
    /\ server_sock' = "none"
    /\ child' = "none"
    /\ conn' = "none"
    /\ peer' = "open"
    /\ sock' = "none"
    /\ wire' = <<>>
    /\ status_buf' = <<>>
    /\ exc' = NoResult
    /\ result' = NoResult
    /\ exit_status' = NoRc
    /\ gpc' = "off"
    /\ rc' = NoRc
    /\ written' = <<>>
    /\ gstep' = 0
    /\ gfailed' = {}
    /\ vport' = 0
    /\ sent' = <<>>
    /\ accept_calls' = 0
    /\ UNCHANGED <<envVars, so_mtime, c_mtime, clock, builds_since_touch>>

HostNext ==
    \/ ProbeFails \/ Probe
    \/ SkipShim \/ ReuseShim \/ BuildShim \/ BuildShimFails
    \/ CreateChannel \/ WriteInit
    \/ Spawn \/ SpawnFails
    \/ AcceptOk \/ AcceptTimeout
    \/ RecvData \/ RecvEof \/ RecvReset
    \/ PopenExit \/ Validate \/ MainExit

ChildNext == ChildConnect \/ ChildClose \/ ChildExit

GuestNext ==
    \/ GuestInit \/ GuestSetup \/ GuestFindPort
    \/ GuestCommand \/ GuestReport \/ GuestPoweroff

Next == HostNext \/ ChildNext \/ GuestNext

Spec == Init /\ [][Next]_vars

\* The host runs whenever it can, and so do the steps of the init script
\* that end by themselves.  Nothing makes the child connect, the kernel
\* reach the script, the user command finish or the child exit.
FairSpec ==
    /\ Spec
    /\ WF_vars(HostNext)
    /\ WF_vars(GuestSetup)
    /\ WF_vars(GuestFindPort)
    /\ WF_vars(GuestReport)
    /\ WF_vars(GuestPoweroff)

(***************************************************************************)
(* A sequence of runs, between and during which the source of the shim may *)
(* change.                                                                 *)
(***************************************************************************)
NextShim == Next \/ TouchSource \/ NextRun

\* the runs in which the hypervisor offers the port and LD_PRELOAD is unset
InitShim == Init /\ ports = <<ThePort>> /\ os_environ = NoPreload
SpecShim == InitShim /\ [][NextShim]_vars

(***************************************************************************)
(* The capability probe on every version text up to MaxVerLen characters.  *)
(***************************************************************************)
InitVersion ==
    /\ version_out \in SeqsUpTo(VerAlphabet, MaxVerLen)
    /\ lost_status = 128
    /\ ports = <<ThePort>>
    /\ os_environ = NoPreload
    /\ clock = 1
    /\ c_mtime = 0
    /\ so_mtime = NoFile
    /\ builds_since_touch = 0
    /\ RunStart
    /\ run = 1

NextVersion == ProbeFails \/ Probe

SpecVersion == InitVersion /\ [][NextVersion]_vars

(***************************************************************************)
(* The status validation on every received buffer up to MaxBufLen bytes    *)
(* and on the message of every exit status 0..255: the state of a run in   *)
(* which the connection was read to its end and the child has exited.      *)
(***************************************************************************)
InitStatus ==
    /\ version_out = <<5, DOT, 0, DOT, 1>>
    /\ lost_status = 128
    /\ pc = "validate"
    /\ qemu_version = <<5, 0, 1>>
    /\ multidevs = TRUE
    /\ env = NoPreload
    /\ clock = 1
    /\ c_mtime = 0
    /\ so_mtime = NoFile
    /\ build_calls = 0
    /\ builds_since_touch = 0
    /\ temp_dir = TRUE
    /\ socket_path = TRUE
    /\ init_file = TRUE
    /\ server_sock = "listening"
    /\ child = "exited"
    /\ conn = "accepted"
    /\ peer = "closed"
    /\ sock = "closed"
    /\ wire = <<>>
    /\ exc = NoResult
    /\ result = NoResult
    /\ exit_status = NoRc
    /\ gpc = "halted"
    /\ gstep = NumSteps + 1
    /\ gfailed = {}
    /\ ports = <<ThePort>>
    /\ os_environ = NoPreload
    /\ vport = 1
    /\ accept_calls = 1
    /\ run = 1
    /\ \/ /\ rc \in 0..255
          /\ written = EchoRc(rc)
          /\ status_buf = written
       \/ /\ rc = NoRc
          /\ written = <<>>
          /\ status_buf \in SeqsUpTo(ByteSet, MaxBufLen)
    /\ sent = status_buf

NextStatus == Validate \/ MainExit

SpecStatus == InitStatus /\ [][NextStatus]_vars

(***************************************************************************)
(* The read loop on every byte sequence up to MaxWireLen bytes over        *)
(* ChunkBytes, sent whole by a peer that then closed the connection: the   *)
(* state of a run right after accept, the child having exited.             *)
(***************************************************************************)
MaxWireLen == 5
ChunkBytes == {48, 49, NL, 45}

InitChunks ==
    /\ version_out = <<5, DOT, 0, DOT, 1>>
    /\ lost_status = 128
    /\ ports = <<ThePort>>
    /\ os_environ = NoPreload
    /\ pc = "recv"
    /\ qemu_version = <<5, 0, 1>>
    /\ multidevs = TRUE
    /\ env = NoPreload
    /\ clock = 1
    /\ c_mtime = 0
    /\ so_mtime = NoFile
    /\ build_calls = 0
    /\ builds_since_touch = 0
    /\ temp_dir = TRUE
    /\ socket_path = TRUE
    /\ init_file = TRUE
    /\ server_sock = "listening"
    /\ child = "exited"
    /\ conn = "accepted"
    /\ peer = "closed"
    /\ sock = "open"
    /\ wire \in SeqsUpTo(ChunkBytes, MaxWireLen)
    /\ sent = wire
    /\ status_buf = <<>>
    /\ exc = NoResult
    /\ result = NoResult
    /\ exit_status = NoRc
    /\ gpc = "halted"
    /\ gstep = NumSteps + 1
    /\ gfailed = {}
    /\ vport = 1
    /\ rc = NoRc
    /\ written = <<>>
    /\ accept_calls = 1
    /\ run = 1

NextChunks == RecvData \/ RecvEof \/ PopenExit \/ Validate \/ MainExit

SpecChunks == InitChunks /\ [][NextChunks]_vars

(***************************************************************************)
(* Vocabulary of the properties.                                           *)
(***************************************************************************)
RunEnded == pc \in {"returned", "exited"}

\* one or more ASCII decimal digits followed by one newline, the last byte
WellFormed(b) ==
    /\ Len(b) >= 2
    /\ b[Len(b)] = NL
    /\ \A i \in 1..(Len(b) - 1) : b[i] \in 48..57

\* numerical comparison of dotted versions, missing components being zero
Component(v, i) == IF i <= Len(v) THEN v[i] ELSE 0
MaxLen2(a, b) == IF Len(a) > Len(b) THEN Len(a) ELSE Len(b)
NumLess(a, b) ==
    \E i \in 1..MaxLen2(a, b) :
        /\ Component(a, i) < Component(b, i)
        /\ \A j \in 1..(i - 1) : Component(a, j) = Component(b, j)

\* the states of the handshake of section 4.5, read off the host
Handshake ==
    IF pc = "accept" THEN "WAITING_FOR_CONNECTION"
    ELSE IF pc = "recv" THEN "RECEIVING"
    ELSE IF accept_calls = 0 THEN "NONE"
    ELSE IF sock = "none" THEN "TIMED_OUT"
    ELSE IF WellFormed(status_buf) THEN "COMPLETE"
    ELSE "CHANNEL_CLOSED_EARLY"

HandshakeSteps ==
    {<<"NONE", "WAITING_FOR_CONNECTION">>,
     <<"WAITING_FOR_CONNECTION", "RECEIVING">>,
     <<"WAITING_FOR_CONNECTION", "TIMED_OUT">>,
     <<"RECEIVING", "COMPLETE">>,
     <<"RECEIVING", "CHANNEL_CLOSED_EARLY">>}

ArtifactFresh == so_mtime # NoFile /\ so_mtime > c_mtime
ArtifactStale == so_mtime = NoFile \/ c_mtime > so_mtime

(***************************************************************************)
(* C1: run_in_vm returns n only if the guest script reached the user       *)
(* command, the command finished with status n and the script wrote the    *)
(* message of n to the port; and when the whole message of the command's   *)
(* status was received, a run that ends returns exactly that status.       *)
(***************************************************************************)
C1_ExitCodeIsGuestStatus ==
    /\ result.kind = "exited" =>
          /\ gpc \in {"poweroff", "halted"}
          /\ rc # NoRc
          /\ result.code = rc
          /\ written = EchoRc(rc)
    /\ (RunEnded /\ rc # NoRc /\ written = EchoRc(rc) /\ status_buf = written)
          => result = Exited(rc)

C1_Witness ==
    /\ pc = "returned"
    /\ rc = 128
    /\ status_buf = <<49, 50, 56, NL>>
    /\ result = Exited(128)

(***************************************************************************)
(* C2: once accept has timed out, the run terminates with LostVM, whatever *)
(* the hypervisor child does afterwards.                                   *)
(***************************************************************************)
C2_TimeoutTerminates ==
    (Handshake = "TIMED_OUT") ~> (RunEnded /\ result.kind = "lost")

(***************************************************************************)
(* C3: when a run has ended, the temporary directory, the init script and  *)
(* the socket path do not exist and the listening socket is not open; the  *)
(* socket has been closed whenever the run got as far as starting the      *)
(* hypervisor.                                                             *)
(***************************************************************************)
C3_ResourcesReleased ==
    RunEnded =>
        /\ ~temp_dir
        /\ ~init_file
        /\ ~socket_path
        /\ server_sock \in {"none", "closed"}
        /\ (result.kind \in {"exited", "lost"} \/ result.msg = "OSError")
              => server_sock = "closed"

C3_Witness ==
    /\ pc = "returned"
    /\ result.kind = "lost"
    /\ result.msg = "VM returned invalid status"
    /\ server_sock = "closed"
    /\ ~temp_dir

(***************************************************************************)
(* C4: the validation yields an exit code exactly for the buffers that are *)
(* digits followed by one final newline; the empty buffer is the LostVM    *)
(* error VM did not return status, every other rejected buffer the LostVM  *)
(* error VM returned invalid status carrying the buffer.                   *)
(***************************************************************************)
C4_ValidationAcceptsExactlyWellFormed ==
    RunEnded =>
        /\ WellFormed(status_buf) <=> result.kind = "exited"
        /\ status_buf = <<>> =>
              result = LostVMError("VM did not return status", <<>>)
        /\ (status_buf # <<>> /\ ~WellFormed(status_buf)) =>
              result = LostVMError("VM returned invalid status", status_buf)

C4_Witness ==
    /\ pc = "returned"
    /\ status_buf = <<49, NL, 50, NL>>
    /\ result.kind = "lost"
    /\ result.raw = status_buf

(***************************************************************************)
(* C5: for every n in 0..255 the message the guest writes for n passes the *)
(* validation and is decoded to n.                                         *)
(***************************************************************************)
C5_StatusRoundTrip ==
    (RunEnded /\ rc \in 0..255 /\ status_buf = EchoRc(rc)) => result = Exited(rc)

C5_Witness ==
    /\ pc = "returned"
    /\ rc = 255
    /\ status_buf = <<50, 53, 53, NL>>
    /\ result.code = 255

(***************************************************************************)
(* C6: the socket listens before the hypervisor is started and the         *)
(* hypervisor is started before accept is called; the hypervisor never     *)
(* runs while the socket is not listening.                                 *)
(***************************************************************************)
C6_ListenBeforeSpawnBeforeAccept ==
    /\ pc = "spawn" => (server_sock = "listening" /\ child = "none")
    /\ child # "none" => server_sock \in {"listening", "closed"}
    /\ child = "running" => server_sock = "listening"
    /\ conn # "none" => child # "none"
    /\ (pc = "accept" \/ accept_calls > 0) => child # "none"

C6_Witness ==
    /\ pc = "accept"
    /\ child = "running"
    /\ conn = "pending"
    /\ server_sock = "listening"

(***************************************************************************)
(* C7, as stated: the exit status of the process equals lost-status if and *)
(* only if the run ended in LostVM.                                        *)
(***************************************************************************)
C7_LostStatusIffLostVM ==
    pc = "exited" => (exit_status = lost_status <=> result.kind = "lost")

(***************************************************************************)
(* C7, amended: with lost-status in 0..255, a run that ended in LostVM     *)
(* exits with lost-status and a run whose command exited with n exits with *)
(* n, so the two are the same status exactly when n is lost-status.        *)
(***************************************************************************)
C7_ExitStatusByOutcome ==
    pc = "exited" =>
        /\ result.kind = "lost" => exit_status = lost_status
        /\ result.kind = "exited" =>
              /\ exit_status = rc
              /\ exit_status = lost_status <=> rc = lost_status

C7_Witness ==
    /\ pc = "exited"
    /\ result = Exited(128)
    /\ lost_status = 128
    /\ exit_status = 128

(***************************************************************************)
(* C8, as stated: for a version tuple of any length, remap is enabled iff  *)
(* the version is numerically at least 4.2.0 and the workaround is         *)
(* selected iff it is numerically below 5.0.1; 4.2.0, 5.0.1 and 5.1.3 give *)
(* (remap, no workaround), 3.9.9 (no remap, workaround), 5.0.0 (remap,     *)
(* workaround); 5.10 orders above 5.9.                                     *)
(***************************************************************************)
C8_FlagsAsStated ==
    pc = "shim" =>
        /\ multidevs <=> ~NumLess(qemu_version, <<4, 2, 0>>)
        /\ NeedsOnoatimeHack(qemu_version) <=> NumLess(qemu_version, <<5, 0, 1>>)
        /\ version_out = <<4, DOT, 2, DOT, 0>> =>
              (multidevs /\ ~NeedsOnoatimeHack(qemu_version))
        /\ version_out = <<5, DOT, 0, DOT, 1>> =>
              (multidevs /\ ~NeedsOnoatimeHack(qemu_version))
        /\ version_out = <<5, DOT, 1, DOT, 3>> =>
              (multidevs /\ ~NeedsOnoatimeHack(qemu_version))
        /\ version_out = <<3, DOT, 9, DOT, 9>> =>
              (~multidevs /\ NeedsOnoatimeHack(qemu_version))
        /\ version_out = <<5, DOT, 0, DOT, 0>> =>
              (multidevs /\ NeedsOnoatimeHack(qemu_version))
        /\ version_out = <<5, DOT, 1, 0>> =>
              (qemu_version = <<5, 10>> /\ TupleLess(<<5, 9>>, qemu_version))

(***************************************************************************)
(* C8, amended: the same rule, with 4.2.0 giving (remap, workaround), as   *)
(* 4.2.0 is below 5.0.1; 5.0.1 and 5.1.3 give (remap, no workaround).      *)
(***************************************************************************)
C8_CapabilityFlags ==
    pc = "shim" =>
        /\ multidevs <=> ~NumLess(qemu_version, <<4, 2, 0>>)
        /\ NeedsOnoatimeHack(qemu_version) <=> NumLess(qemu_version, <<5, 0, 1>>)
        /\ version_out = <<4, DOT, 2, DOT, 0>> =>
              (multidevs /\ NeedsOnoatimeHack(qemu_version))
        /\ version_out = <<4, DOT, 2>> =>
              (multidevs /\ NeedsOnoatimeHack(qemu_version))
        /\ version_out = <<5, DOT, 0, DOT, 1>> =>
              (multidevs /\ ~NeedsOnoatimeHack(qemu_version))
        /\ version_out = <<5, DOT, 1, DOT, 3>> =>
              (multidevs /\ ~NeedsOnoatimeHack(qemu_version))
        /\ version_out = <<3, DOT, 9, DOT, 9>> =>
              (~multidevs /\ NeedsOnoatimeHack(qemu_version))
        /\ version_out = <<5, DOT, 0, DOT, 0>> =>
              (multidevs /\ NeedsOnoatimeHack(qemu_version))
        /\ version_out = <<5, DOT, 0>> =>
              (multidevs /\ NeedsOnoatimeHack(qemu_version))
        /\ version_out = <<5, DOT, 1, 0>> =>
              (qemu_version = <<5, 10>> /\ TupleLess(<<5, 9>>, qemu_version))

C8_Witness ==
    /\ pc = "shim"
    /\ version_out = <<4, DOT, 2, DOT, 0>>
    /\ qemu_version = <<4, 2, 0>>
    /\ multidevs
    /\ NeedsOnoatimeHack(qemu_version)

(***************************************************************************)
(* C9: the handshake only takes the steps WAITING_FOR_CONNECTION to        *)
(* RECEIVING to COMPLETE, WAITING_FOR_CONNECTION to TIMED_OUT and          *)
(* RECEIVING to CHANNEL_CLOSED_EARLY; accept is called once; bytes are     *)
(* received only while RECEIVING; an exit code comes from COMPLETE only,   *)
(* TIMED_OUT holds a LostVM error, and a run that ends in TIMED_OUT or     *)
(* CHANNEL_CLOSED_EARLY ends in LostVM.                                    *)
(***************************************************************************)
C9_HandshakeSteps ==
    /\ [][/\ Handshake' # Handshake => <<Handshake, Handshake'>> \in HandshakeSteps
          /\ status_buf' # status_buf => Handshake = "RECEIVING"]_vars
    /\ [](/\ accept_calls <= 1
          /\ status_buf # <<>> => sock # "none"
          /\ result.kind = "exited" => Handshake = "COMPLETE"
          /\ Handshake = "TIMED_OUT" => exc.kind = "lost"
          /\ (RunEnded /\ Handshake \in {"TIMED_OUT", "CHANNEL_CLOSED_EARLY"})
                => result.kind = "lost")

C9_Witness ==
    /\ Handshake = "CHANNEL_CLOSED_EARLY"
    /\ pc = "returned"
    /\ status_buf = <<49>>
    /\ result.kind = "lost"

(***************************************************************************)
(* C10, as stated: once the build step has been invoked it is not invoked  *)
(* again, in that run or a later one, until the source changes again.      *)
(***************************************************************************)
C10_BuiltOncePerSourceChange == builds_since_touch <= 1

(***************************************************************************)
(* C10, amended: a run that finds the artifact newer than its source does  *)
(* not invoke the build step; a run that finds it missing or older than    *)
(* the source invokes it exactly once; after a build that succeeds the     *)
(* artifact is newer than the source and stays so until the source         *)
(* changes, while a build that fails leaves it for the next run to build.  *)
(***************************************************************************)
C10_BuildOnlyWhenStale ==
    /\ [][/\ (pc = "shim" /\ pc' # "shim" /\ NeedsOnoatimeHack(qemu_version)) =>
                /\ ArtifactFresh => build_calls' = build_calls
                /\ ArtifactStale => build_calls' = build_calls + 1
                /\ pc' = "setup" => ArtifactFresh'
          /\ (ArtifactFresh /\ c_mtime' = c_mtime) => ArtifactFresh'
          /\ build_calls' > build_calls => pc = "shim"]_vars
    /\ [](build_calls <= 1)

C10_Witness ==
    /\ run = 3
    /\ NeedsOnoatimeHack(qemu_version)
    /\ pc = "setup"
    /\ build_calls = 0
    /\ builds_since_touch = 2
    /\ ArtifactFresh

\* the groups of ScriptSteps that hold a mount, a mkdir or a modprobe
SetupSteps ==
    {i \in 1..NumSteps :
        ScriptSteps[i].cmds \cap {"mount", "mkdir", "modprobe"} # {}}

\* the first mount of /proc and the mount of cgroup2, by their lines
ProcMountStep == CHOOSE i \in 1..NumSteps : ScriptSteps[i].first = 25
Cgroup2Step == CHOOSE i \in 1..NumSteps : ScriptSteps[i].first = 58

\* the script stopped at step i: no user command, nothing written
StoppedAt(i) ==
    /\ gpc \in {"poweroff", "halted"}
    /\ gstep = i
    /\ rc = NoRc
    /\ written = <<>>
    /\ sent = <<>>

(***************************************************************************)
(* C11: the script exits only after its trap is registered; once it has    *)
(* exited, whether at a failed setup step, at a missing port, at a failed  *)
(* write of the status or after the report, the guest is powered off and   *)
(* the hypervisor process terminates; a halted guest has no live child.    *)
(***************************************************************************)
C11_ExitTrapPowersOff ==
    /\ [](gpc \in {"poweroff", "halted"} => gstep > TrapStep)
    /\ [](gpc = "halted" => child = "exited")
    /\ (gpc = "poweroff" ~> child = "exited")

C11_Witness ==
    /\ gpc = "halted"
    /\ child = "exited"
    /\ gstep \in SetupSteps
    /\ gstep \in gfailed

(***************************************************************************)
(* C12, as stated: whenever a mount, mkdir or modprobe step before the     *)
(* user command has failed, the first mount of /proc and the mount of      *)
(* cgroup2 included, the script stopped at that step, the command was not  *)
(* run and no status was written.                                          *)
(***************************************************************************)
C12_EverySetupFailureFatal ==
    \A i \in gfailed \cap SetupSteps : StoppedAt(i)

(***************************************************************************)
(* C12, amended: a failed mount, mkdir or modprobe step between set -eu    *)
(* and the user command, other than the mount of cgroup2, stops the script *)
(* at that step, with no command run and no status written; a failure of   *)
(* the first mount of /proc or of the mount of cgroup2 does not stop it.   *)
(***************************************************************************)
C12_SetupFailureFatalUnderErrExit ==
    \A i \in gfailed \cap SetupSteps :
        IF i \in {ProcMountStep, Cgroup2Step}
        THEN gstep > i
        ELSE StoppedAt(i)

C12_Witness ==
    /\ gfailed = {ProcMountStep, Cgroup2Step}
    /\ gpc = "halted"
    /\ rc = 0
    /\ written = EchoRc(0)

(***************************************************************************)
(* C13: a read that meets a reset connection ends the read phase as a      *)
(* read of no bytes does: the socket is closed, no exception is pending,   *)
(* the bytes received so far are kept, reading is not resumed, and a run   *)
(* whose connection was reset ends with the outcome its received bytes     *)
(* give after a clean close: an exit code if they are well formed, LostVM  *)
(* if not.                                                                 *)
(***************************************************************************)
C13_ResetAsCleanClose ==
    /\ [][/\ (pc = "recv" /\ peer = "reset" /\ pc' # "recv") =>
                /\ pc' = "popen_exit"
                /\ sock' = "closed"
                /\ status_buf' = status_buf
                /\ exc' = NoResult
          /\ (pc # "recv" /\ sock = "closed") => pc' # "recv"]_vars
    /\ [](\A end \in {"closed", "reset"} :
             (RunEnded /\ sock = "closed" /\ peer = end) =>
                /\ result = StatusResult(status_buf)
                /\ result.kind =
                      IF WellFormed(status_buf) THEN "exited" ELSE "lost")

C13_Witness ==
    /\ RunEnded
    /\ peer = "reset"
    /\ sock = "closed"
    /\ status_buf = EchoRc(7)
    /\ result = Exited(7)

\* the ports of a listing that can be read and carry the name of the
\* control port, and the first of them, 0 if there is none
Matching(ps) ==
    {i \in 1..Len(ps) :
        ps[i].readable /\ ps[i].name = "com.osandov.vmtest.0"}
FirstMatch(ps) ==
    IF Matching(ps) = {} THEN 0
    ELSE CHOOSE i \in Matching(ps) : \A j \in Matching(ps) : i <= j

\* the script has made its scan of the ports
Scanned == gstep = NumSteps + 1 /\ gpc # "findport"

(***************************************************************************)
(* C14: the script looks for the name the host gave the port; after its    *)
(* one scan it holds the first readable port of that name and never scans  *)
(* again; if no port matches, the script exits without running the         *)
(* command and without writing a status, and the run, which ends, ends as  *)
(* LostVM.                                                                 *)
(***************************************************************************)
C14_FirstPortOrLostVM ==
    /\ [](VPORT_NAME = VirtserialportName)
    /\ [](Scanned => vport = FirstMatch(ports))
    /\ [][Scanned => gpc' # "findport"]_vars
    /\ []((Scanned /\ FirstMatch(ports) = 0) =>
             /\ gpc \in {"poweroff", "halted"}
             /\ rc = NoRc
             /\ written = <<>>
             /\ sent = <<>>
             /\ RunEnded => result.kind = "lost")
    /\ ((Scanned /\ FirstMatch(ports) = 0) ~>
            (RunEnded /\ result.kind = "lost"))

C14_Witness ==
    /\ ports = <<UnreadablePort, OtherPort>>
    /\ Scanned
    /\ gpc = "halted"
    /\ vport = 0
    /\ pc = "returned"
    /\ result = LostVMError("VM did not return status", <<>>)

\* the run ended with one of its two outcomes
Classified == RunEnded /\ result.kind \in {"exited", "lost"}

(***************************************************************************)
(* C15: the host leaves the read phase only when the peer has closed or    *)
(* reset the connection, so while the peer keeps it open the run does not  *)
(* end; and from the read phase, if the peer at some time closes or resets *)
(* the connection and the child at some time has exited, the run ends      *)
(* with an exit code or with LostVM.                                       *)
(***************************************************************************)
C15_ReadPhaseEndsWithPeer ==
    /\ [][(pc = "recv" /\ peer' = "open") => pc' = "recv"]_vars
    /\ [](pc = "recv" =>
             ((<>(peer # "open") /\ <>(child = "exited")) => <>Classified))

C15_Witness ==
    /\ accept_calls = 1
    /\ sock = "closed"
    /\ child = "exited"
    /\ pc = "exited"
    /\ result.kind = "lost"
    /\ status_buf = <<55>>

(***************************************************************************)
(* C16: once the child was started, the run is not over, by a return or    *)
(* by an exception, while the child runs; the child ends by itself, never  *)
(* in a step of the host; when the host waits for the child the accepted   *)
(* connection, if there was one, is closed already; and the status is      *)
(* validated only when the child has exited.                               *)
(***************************************************************************)
C16_WaitsForChild ==
    /\ []((RunEnded /\ child # "none") => child = "exited")
    /\ [](pc = "validate" => child = "exited")
    /\ [](pc = "popen_exit" => sock # "open")
    /\ [][(child = "running" /\ child' # "running") =>
             /\ child' = "exited"
             /\ pc' = pc
             /\ sock' = sock
             /\ result' = result]_vars

C16_Witness ==
    /\ pc = "returned"
    /\ child = "exited"
    /\ sock = "none"
    /\ conn = "pending"
    /\ result = LostVMError("QEMU did not connect within 5 seconds", <<>>)

\* env has been made and the build step, if it ran, did not fail
EnvReady == env # NotCopied /\ result # OtherError("CalledProcessError")

\* the value of LD_PRELOAD in the environment of the host, empty if unset
HostPreload == IF os_environ.set THEN os_environ.val ELSE <<>>

(***************************************************************************)
(* C17: for a version below 5.0.1 the environment made for the hypervisor  *)
(* has LD_PRELOAD set to the path of the shim, a colon and the value the   *)
(* host had, and the shim is there, built or found up to date; for any     *)
(* other version the build step is not invoked and the environment is the  *)
(* copy of the host's; the environment of the host never changes.          *)
(***************************************************************************)
C17_ShimIffOldVersion ==
    /\ [](EnvReady =>
             IF NumLess(qemu_version, <<5, 0, 1>>)
             THEN /\ env.set
                  /\ env.val = <<OnoatimehackSo, ":">> \o HostPreload
                  /\ ArtifactFresh
             ELSE /\ env = os_environ
                  /\ build_calls = 0)
    /\ []((pc # "start" /\ ~NumLess(qemu_version, <<5, 0, 1>>)) =>
             build_calls = 0)
    /\ [][os_environ' = os_environ]_vars

C17_Witness ==
    /\ child = "running"
    /\ qemu_version = <<4, 1>>
    /\ os_environ = [set |-> TRUE, val |-> <<"libfoo.so">>]
    /\ env = [set |-> TRUE, val |-> <<OnoatimehackSo, ":", "libfoo.so">>]
    /\ build_calls = 1

\* the output of the version query holds no digit
NoDigits(out) == \A i \in 1..Len(out) : out[i] \notin 0..9

\* a step that creates the directory, the script, the socket or the child
Creates ==
    \/ ~temp_dir /\ temp_dir'
    \/ ~socket_path /\ socket_path'
    \/ ~init_file /\ init_file'
    \/ server_sock = "none" /\ server_sock' # "none"
    \/ child = "none" /\ child' # "none"

\* a step in which the version query is found unparseable or the build
\* step is invoked and leaves no artifact newer than the source
FailsEarly ==
    \/ pc = "start" /\ pc' # "start" /\ NoDigits(version_out)
    \/ build_calls' > build_calls /\ ~ArtifactFresh'

(***************************************************************************)
(* C18: a step in which the version is found unparseable or the build      *)
(* fails ends the run with an error that is not LostVM; the directory,     *)
(* the script, the socket and the child are created only after the version *)
(* was parsed and the shim step was passed, so a run that failed in this   *)
(* way has created none of them, and its process exits with status 1.      *)
(***************************************************************************)
C18_EarlyFailureCreatesNothing ==
    /\ [][/\ FailsEarly =>
                /\ pc' = "returned"
                /\ result'.kind = "error"
                /\ server_sock = "none"
                /\ child = "none"
          /\ Creates =>
                /\ pc \notin {"start", "shim"}
                /\ qemu_version # <<>>
                /\ result = NoResult
          /\ (result.kind = "error" /\ child = "none") => ~Creates]_vars
    /\ []((RunEnded /\ (NoDigits(version_out) \/ env = NotCopied)) =>
             /\ result.kind = "error"
             /\ server_sock = "none"
             /\ child = "none"
             /\ conn = "none"
             /\ ~temp_dir /\ ~socket_path /\ ~init_file
             /\ pc = "exited" => exit_status = 1)

C18_Witness ==
    /\ pc = "exited"
    /\ result = OtherError("CalledProcessError")
    /\ build_calls = 1
    /\ server_sock = "none"
    /\ child = "none"
    /\ exit_status = 1

(***************************************************************************)
(* C19: every read adds between one and four bytes to the buffer; while    *)
(* the host reads, the buffer followed by what is still to be read is the  *)
(* sequence that was sent, whatever the reads were, and after the last     *)
(* read the buffer is that sequence; the outcome of the run is the one of  *)
(* the sequence: an exit code if it is well formed, LostVM if not.         *)
(***************************************************************************)
C19_OutcomeIndependentOfChunking ==
    /\ [][status_buf' # status_buf =>
             /\ Len(status_buf') - Len(status_buf) \in 1..4
             /\ SubSeq(status_buf', 1, Len(status_buf)) = status_buf]_vars
    /\ [](pc = "recv" => status_buf \o wire = sent)
    /\ [](pc # "recv" => status_buf = sent)
    /\ [](RunEnded =>
             /\ result = StatusResult(sent)
             /\ result.kind = IF WellFormed(sent) THEN "exited" ELSE "lost")

C19_Witness ==
    /\ pc = "returned"
    /\ sent = <<49, 48, 48, 48, NL>>
    /\ status_buf = sent
    /\ result = Exited(1000)
====
